---------------------------- MODULE Spec2Model ----------------------------
(***************************************************************************)
(* State-machine model of the ACORD 25 analyzer:                           *)
(*   - the server route  src/app/api/analyze/route.ts  (validateFiles,     *)
(*     fileToDataUrl, parseAcordResponse, POST);                           *)
(*   - the page component  src/app/page.tsx  (convertPdfToImages,          *)
(*     handleFileChange, handleDrop, reset, handleSubmit).                 *)
(***************************************************************************)
EXTENDS Integers, Sequences, FiniteSets, TLC

VARIABLES
    \* ---- POST handler (route.ts 93-205)
    pc,          \* position of the handler: start, encode, loop, await, done
    validFiles,  \* const validFiles (line 101)
    byteFail,    \* indices of validFiles whose file.arrayBuffer() rejects
    imageDataUrls, \* const imageDataUrls (line 104)
    modelIdx,    \* position of the for-of loop over models (line 134)
    inFlight,    \* model identifiers with a generateText call outstanding
    attempts,    \* model identifiers passed to generateText so far, in order
    thrown,      \* errors thrown by generateText so far, in order
    lastError,   \* let lastError (line 132)
    text,        \* const { text } of the call that returned (line 136)
    failedAt,    \* the step of the handler that threw, "none" so far
    responses,   \* the responses the handler has returned, in order
    \* ---- validateFiles applied to one input (route.ts 24-54)
    vfiles,      \* the argument files
    vresult,     \* what the call produced
    \* ---- parseAcordResponse applied to one input (route.ts 71-91)
    ptext,       \* the argument text
    presult,     \* what the call produced
    \* ---- convertPdfToImages (page.tsx 31-79)
    cpc,         \* position: open, pages, returned, threw
    numPages,    \* pdf.numPages
    pageNum,     \* loop variable pageNum
    imageFiles,  \* const imageFiles
    skipped,     \* pages whose canvas.toBlob produced null
    \* ---- the page component GroqAnalyzePage (page.tsx 15-206)
    held,        \* fileInputRef.current.files
    fileSummary, \* useState fileSummary
    uiError,     \* useState error
    json,        \* useState json
    loading,     \* useState loading
    event,       \* the DOM event being dispatched to its handler, Null if none
    spc,         \* position of handleSubmit: idle, raster, fetch, done, threw
    formData     \* const formData of handleSubmit: the files appended

postVars == <<pc, validFiles, byteFail, imageDataUrls, modelIdx, inFlight,
              attempts, thrown, lastError, text, failedAt, responses>>
validateVars == <<vfiles, vresult>>
parseVars == <<ptext, presult>>
pdfVars == <<cpc, numPages, pageNum, imageFiles, skipped>>
clientVars == <<held, fileSummary, uiError, json, loading, event, spc, formData>>
vars == <<postVars, validateVars, parseVars, pdfVars, clientVars>>

(***************************************************************************)
(* Bounds of the model.                                                    *)
(***************************************************************************)
MaxFiles == 6
MaxLen == 5
MaxReplyLen == 4
MaxNumPages == 7
MaxSelect == 6
MaxMixed == 4

\* JavaScript null, and the result of a call not made yet
Null == [t |-> "null"]
Pending == [t |-> "pending"]

\* the sequences over S of length at most n
SeqsUpTo(S, n) == UNION {[1..k -> S] : k \in 0..n}

(***************************************************************************)
(* Files: name, media type, byte size.                                     *)
(***************************************************************************)
MiB == 1024 * 1024

FileKinds ==
    { [name |-> "a.png", type |-> "image/png",  size |-> MiB],
      [name |-> "b.jpg", type |-> "image/jpeg", size |-> 2 * MiB],
      [name |-> "c.png", type |-> "image/png",  size |-> 2 * MiB + 1],
      [name |-> "d.jpg", type |-> "image/jpg",  size |-> 3 * MiB],
      [name |-> "e.gif", type |-> "image/gif",  size |-> 1024],
      [name |-> "f.pdf", type |-> "application/pdf", size |-> 1024] }

FileLists == SeqsUpTo(FileKinds, MaxFiles)

(***************************************************************************)
(* class AcordAnalyzerError                                                *)
(***************************************************************************)
AcordAnalyzerError(message, code, statusCode) ==
    [name |-> "AcordAnalyzerError", message |-> message, code |-> code,
     statusCode |-> statusCode]

Threw(error) == [ok |-> FALSE, error |-> error]
Returned(value) == [ok |-> TRUE, value |-> value]

(***************************************************************************)
(* validateFiles                                                           *)
(***************************************************************************)
MAX_FILE_SIZE == 2 * 1024 * 1024
MAX_TOTAL_SIZE == 4 * 1024 * 1024
SupportedTypes == {"image/png", "image/jpeg", "image/jpg"}

\* files.filter(f => [...].includes(f.type))
IsSupported(f) == f.type \in SupportedTypes

RECURSIVE SumSize(_)
SumSize(s) == IF s = <<>> THEN 0 ELSE Head(s).size + SumSize(Tail(s))

\* variant: a file of exactly the limit counts as too large
FirstTooLargeBad(valid) ==
    LET over == {i \in 1..Len(valid) : valid[i].size >= MAX_FILE_SIZE}
    IN  IF over = {} THEN 0 ELSE CHOOSE i \in over : \A j \in over : i <= j

\* for (const file of validFiles) if (file.size > MAX_FILE_SIZE): the first hit
FirstTooLarge(valid) ==
    LET over == {i \in 1..Len(valid) : valid[i].size > MAX_FILE_SIZE}
    IN  IF over = {} THEN 0 ELSE CHOOSE i \in over : \A j \in over : i <= j

\* variant: the count of files is not checked
validateFilesNoCount(files) ==
    LET valid == SelectSeq(files, IsSupported)
        big == FirstTooLarge(valid)
    IN  IF Len(files) = 0
        THEN Threw(AcordAnalyzerError(<<"No files uploaded">>, "NO_FILES", 400))
        ELSE IF Len(valid) = 0
        THEN Threw(AcordAnalyzerError(<<"Only images (PNG/JPEG/JPG) are supported">>,
                                      "INVALID_FILE_TYPE", 400))
        ELSE IF big # 0
        THEN Threw(AcordAnalyzerError(
                 <<"File ", valid[big].name, " is too large (max 2MB per file)">>,
                 "FILE_TOO_LARGE", 400))
        ELSE IF SumSize(valid) > MAX_TOTAL_SIZE
        THEN Threw(AcordAnalyzerError(<<"Total file size exceeds 4MB limit">>,
                                      "TOTAL_SIZE_EXCEEDED", 400))
        ELSE Returned(valid)

validateFiles(files) ==
    LET valid == SelectSeq(files, IsSupported)
        big == FirstTooLarge(valid)
    IN  IF Len(files) = 0
        THEN Threw(AcordAnalyzerError(<<"No files uploaded">>, "NO_FILES", 400))
        ELSE IF Len(files) > 5
        THEN Threw(AcordAnalyzerError(<<"Maximum 5 images allowed">>,
                                      "TOO_MANY_FILES", 400))
        ELSE IF Len(valid) = 0
        THEN Threw(AcordAnalyzerError(<<"Only images (PNG/JPEG/JPG) are supported">>,
                                      "INVALID_FILE_TYPE", 400))
        ELSE IF big # 0
        THEN Threw(AcordAnalyzerError(
                 <<"File ", valid[big].name, " is too large (max 2MB per file)">>,
                 "FILE_TOO_LARGE", 400))
        ELSE IF SumSize(valid) > MAX_TOTAL_SIZE
        THEN Threw(AcordAnalyzerError(<<"Total file size exceeds 4MB limit">>,
                                      "TOTAL_SIZE_EXCEEDED", 400))
        ELSE Returned(valid)

(***************************************************************************)
(* Model output text, as a sequence of lexical tokens:                     *)
(*   "{"  "}"  ","    the JSON punctuation                                 *)
(*   "a"              a complete scalar member,  "a":1                     *)
(*   "k"              a member name with its colon,  "k":                  *)
(*   "null"           the word null                                        *)
(*   "x"              any other prose                                      *)
(***************************************************************************)
Tokens == {"{", "}", ",", "a", "k", "null", "x"}
Texts == SeqsUpTo(Tokens, MaxLen)
ReplyTexts == SeqsUpTo(Tokens, MaxReplyLen)

\* JSON values
JsonNumber == [t |-> "number", v |-> 1]
JsonObject(members) == [t |-> "object", members |-> members]
\* obj[key] = v: a repeated name keeps its last value
Put(members, key, v) == {p \in members : p[1] # key} \cup {<<key, v>>}

SyntaxError == Threw([name |-> "SyntaxError", message |-> <<"Unexpected token">>])

(***************************************************************************)
(* JSON.parse on a token sequence: recursive descent over                  *)
(*   object  ::= "{" "}" | "{" member ("," member)* "}"                    *)
(*   member  ::= "a" | "k" value                                           *)
(*   value   ::= object | "null"                                           *)
(* Each operator returns Threw(SyntaxError) or [ok, value, next].          *)
(***************************************************************************)
Parsed(value, next) == [ok |-> TRUE, value |-> value, next |-> next]

RECURSIVE ParseObject(_, _)
RECURSIVE ParseMembers(_, _, _)
RECURSIVE ParseRest(_, _, _)

ParseObject(s, i) ==
    IF i + 1 > Len(s) \/ s[i] # "{" THEN SyntaxError
    ELSE IF s[i + 1] = "}" THEN Parsed(JsonObject({}), i + 2)
    ELSE ParseMembers(s, i + 1, {})

ParseMembers(s, i, acc) ==
    IF i > Len(s) THEN SyntaxError
    ELSE IF s[i] = "a" THEN ParseRest(s, i + 1, Put(acc, "a", JsonNumber))
    ELSE IF s[i] = "k" /\ i + 1 <= Len(s) /\ s[i + 1] = "null"
         THEN ParseRest(s, i + 2, Put(acc, "k", Null))
    ELSE IF s[i] = "k"
         THEN LET r == ParseObject(s, i + 1)
              IN  IF r.ok THEN ParseRest(s, r.next, Put(acc, "k", r.value))
                  ELSE SyntaxError
    ELSE SyntaxError

ParseRest(s, j, acc) ==
    IF j > Len(s) THEN SyntaxError
    ELSE IF s[j] = "}" THEN Parsed(JsonObject(acc), j + 1)
    ELSE IF s[j] = "," THEN ParseMembers(s, j + 1, acc)
    ELSE SyntaxError

\* JSON.parse(jsonMatch[0]): the whole string must be one value
JSONparse(s) ==
    LET r == ParseObject(s, 1)
    IN  IF r.ok /\ r.next = Len(s) + 1 THEN Returned(r.value) ELSE SyntaxError

\* variant: a lazy match, which ends at the first "}"
RegexMatchLazy(t) ==
    LET opens == {i \in DOMAIN t : t[i] = "{" /\ \E j \in DOMAIN t : j > i /\ t[j] = "}"}
    IN  IF opens = {} THEN Null
        ELSE LET i == CHOOSE a \in opens : \A b \in opens : a <= b
                 closes == {j \in DOMAIN t : j > i /\ t[j] = "}"}
                 j == CHOOSE a \in closes : \A b \in closes : a <= b
             IN  [t |-> "match", s |-> SubSeq(t, i, j)]

\* text.match(/\{[\s\S]*\}/): the leftmost "{" that has a "}" after it, and
\* from there, greedily, up to the last "}" of the text
RegexMatch(t) ==
    LET opens == {i \in DOMAIN t : t[i] = "{" /\ \E j \in DOMAIN t : j > i /\ t[j] = "}"}
    IN  IF opens = {} THEN Null
        ELSE LET i == CHOOSE a \in opens : \A b \in opens : a <= b
                 closes == {j \in DOMAIN t : j > i /\ t[j] = "}"}
                 j == CHOOSE a \in closes : \A b \in closes : a >= b
             IN  [t |-> "match", s |-> SubSeq(t, i, j)]

\* Object.keys(parsed).length
KeyCount(parsed) == Cardinality(parsed.members)

\* variant: an empty object is returned as it is
parseAcordResponseKeepEmpty(t) ==
    LET jsonMatch == RegexMatch(t)
    IN  IF jsonMatch = Null THEN Null
        ELSE LET r == JSONparse(jsonMatch.s)
             IN  IF ~r.ok THEN Null ELSE r.value

parseAcordResponse(t) ==
    LET jsonMatch == RegexMatch(t)
    IN  IF jsonMatch = Null THEN Null
        ELSE LET r == JSONparse(jsonMatch.s)
             IN  IF ~r.ok THEN Null                     \* catch (parseError)
                 ELSE IF r.value.t = "object" /\ KeyCount(r.value) > 0
                      THEN r.value
                      ELSE Null

(***************************************************************************)
(* Idle values of the parts a specification does not exercise.             *)
(***************************************************************************)
PostIdle ==
    /\ pc = "idle" /\ validFiles = <<>> /\ byteFail = {} /\ imageDataUrls = <<>>
    /\ modelIdx = 0 /\ inFlight = {} /\ attempts = <<>> /\ thrown = <<>>
    /\ lastError = Null /\ text = Null /\ failedAt = "none" /\ responses = <<>>
ValidateIdle == vfiles = <<>> /\ vresult = Pending
ParseIdle == ptext = <<>> /\ presult = Pending
PdfIdle ==
    /\ cpc = "idle" /\ numPages = 0 /\ pageNum = 0 /\ imageFiles = <<>>
    /\ skipped = {}
ClientIdle ==
    /\ held = <<>> /\ fileSummary = <<>> /\ uiError = Null /\ json = Null
    /\ loading = FALSE /\ event = Null /\ spc = "idle" /\ formData = <<>>

(***************************************************************************)
(* fileToDataUrl and the callback POST maps over validFiles.  bytesOk says *)
(* whether file.arrayBuffer() resolves.  The base64 payload is the file's  *)
(* content, which the model identifies by the file's name.                 *)
(***************************************************************************)
fileToDataUrl(file, bytesOk) ==
    IF bytesOk
    THEN Returned(<<"data:", file.type, ";base64,", file.name>>)
    ELSE Threw(AcordAnalyzerError(<<"Failed to process file ", file.name>>,
                                  "FILE_PROCESSING_ERROR", 400))

\* variant: the callback lets fileToDataUrl's error through
EncodeFileNoRewrap(file, bytesOk) == fileToDataUrl(file, bytesOk)

\* validFiles.map(async (file) => { try { ... } catch { throw ... } })
EncodeFile(file, bytesOk) ==
    LET r == fileToDataUrl(file, bytesOk)
    IN  IF r.ok THEN r
        ELSE Threw(AcordAnalyzerError(<<"Failed to process file ", file.name>>,
                                      "FILE_CONVERSION_ERROR", 400))

(***************************************************************************)
(* The POST handler.  Response bodies leave out the timestamp.             *)
(***************************************************************************)
models ==
    << "meta-llama/llama-4-scout-17b-16e-instruct",
       "meta-llama/llama-4-maverick-17b-128e-instruct" >>

\* what generateText may throw
ModelErrors ==
    { [name |-> "Error", message |-> <<"rate limit exceeded">>],
      [name |-> "Error", message |-> <<"fetch failed">>] }

\* NextResponse.json(body, { status })
JsonResponse(body, status) == [status |-> status, body |-> body]

\* variant: the response always reports the first identifier
SuccessResponsePrimary(parsedResponse, modelName, filesProcessed) ==
    IF parsedResponse # Null
    THEN JsonResponse([data |-> parsedResponse, success |-> TRUE, model |-> models[1],
                       filesProcessed |-> filesProcessed], 200)
    ELSE JsonResponse([data |-> Null, success |-> TRUE,
                       message |-> <<"Document does not appear to be an ACORD 25 certificate">>,
                       model |-> models[1]], 200)

\* lines 147-165: the response to a call that returned
SuccessResponse(parsedResponse, modelName, filesProcessed) ==
    IF parsedResponse # Null
    THEN JsonResponse([data |-> parsedResponse, success |-> TRUE, model |-> modelName,
                       filesProcessed |-> filesProcessed], 200)
    ELSE JsonResponse([data |-> Null, success |-> TRUE,
                       message |-> <<"Document does not appear to be an ACORD 25 certificate">>,
                       model |-> modelName], 200)

\* variant: an unexpected error is answered with its own message, no code, status 400
OuterCatchLeaky(error) ==
    IF error.name = "AcordAnalyzerError"
    THEN JsonResponse([error |-> error.message, code |-> error.code, success |-> FALSE],
                      error.statusCode)
    ELSE JsonResponse([error |-> error.message, code |-> "", success |-> FALSE], 400)

\* lines 185-204: the handler's outer catch
OuterCatch(error) ==
    IF error.name = "AcordAnalyzerError"
    THEN JsonResponse([error |-> error.message, code |-> error.code, success |-> FALSE],
                      error.statusCode)
    ELSE JsonResponse([error |-> <<"Internal server error">>, code |-> "INTERNAL_ERROR",
                       success |-> FALSE], 500)

Init ==
    /\ pc = "start" /\ validFiles = <<>> /\ byteFail = {} /\ imageDataUrls = <<>>
    /\ modelIdx = 0 /\ inFlight = {} /\ attempts = <<>> /\ thrown = <<>>
    /\ lastError = Null /\ text = Null /\ failedAt = "none" /\ responses = <<>>
    /\ ValidateIdle /\ ParseIdle /\ PdfIdle /\ ClientIdle

\* line 96: req.formData() rejects (a body that is not form data)
FormDataRejects ==
    /\ pc = "start"
    /\ failedAt' = "form"
    /\ responses' = Append(responses,
           OuterCatch([name |-> "TypeError", message |-> <<"Failed to parse body as FormData">>]))
    /\ pc' = "done"
    /\ UNCHANGED <<validFiles, byteFail, imageDataUrls, modelIdx, inFlight, attempts,
                   thrown, lastError, text>>
    /\ UNCHANGED <<validateVars, parseVars, pdfVars, clientVars>>

\* lines 96-101: the form is read; files are its File entries, validated
ReceiveForm ==
    /\ pc = "start"
    /\ \E files \in FileLists :
         LET r == validateFiles(files)
         IN  IF r.ok
             THEN /\ validFiles' = r.value
                  /\ pc' = "encode"
                  /\ UNCHANGED <<failedAt, responses>>
             ELSE /\ failedAt' = "validation"
                  /\ responses' = Append(responses, OuterCatch(r.error))
                  /\ pc' = "done"
                  /\ UNCHANGED validFiles
    /\ UNCHANGED <<byteFail, imageDataUrls, modelIdx, inFlight, attempts, thrown,
                   lastError, text>>
    /\ UNCHANGED <<validateVars, parseVars, pdfVars, clientVars>>

\* lines 104-116: Promise.all over the encodings.  It rejects with the first
\* rejection to happen, which may be that of any file whose bytes fail.
Encode ==
    /\ pc = "encode"
    /\ \E failing \in SUBSET DOMAIN validFiles :
         /\ byteFail' = failing
         /\ IF failing = {}
            THEN /\ imageDataUrls' = [i \in DOMAIN validFiles |->
                                        EncodeFile(validFiles[i], TRUE).value]
                 /\ modelIdx' = 1
                 /\ pc' = "loop"
                 /\ UNCHANGED <<failedAt, responses>>
            ELSE \E i \in failing :
                 /\ failedAt' = "encoding"
                 /\ responses' = Append(responses,
                        OuterCatch(EncodeFile(validFiles[i], FALSE).error))
                 /\ pc' = "done"
                 /\ UNCHANGED <<imageDataUrls, modelIdx>>
    /\ UNCHANGED <<validFiles, inFlight, attempts, thrown, lastError, text>>
    /\ UNCHANGED <<validateVars, parseVars, pdfVars, clientVars>>

\* lines 134-142: the loop issues generateText for the next identifier
CallModel ==
    /\ pc = "loop"
    /\ modelIdx <= Len(models)
    /\ inFlight' = inFlight \cup {models[modelIdx]}
    /\ attempts' = Append(attempts, models[modelIdx])
    /\ pc' = "await"
    /\ UNCHANGED <<validFiles, byteFail, imageDataUrls, modelIdx, thrown, lastError,
                   text, failedAt, responses>>
    /\ UNCHANGED <<validateVars, parseVars, pdfVars, clientVars>>

\* variant: a reply that parses to null moves the loop on to the next identifier
ModelReturnsRetryOnNull ==
    /\ pc = "await"
    /\ \E reply \in ReplyTexts :
         LET parsedResponse == parseAcordResponse(reply)
         IN  /\ text' = [t |-> "string", s |-> reply]
             /\ IF parsedResponse = Null /\ modelIdx < Len(models)
                THEN /\ modelIdx' = modelIdx + 1
                     /\ pc' = "loop"
                     /\ UNCHANGED responses
                ELSE /\ responses' = Append(responses,
                            SuccessResponse(parsedResponse, models[modelIdx], Len(validFiles)))
                     /\ pc' = "done"
                     /\ UNCHANGED modelIdx
    /\ inFlight' = inFlight \ {models[modelIdx]}
    /\ UNCHANGED <<validFiles, byteFail, imageDataUrls, attempts, thrown,
                   lastError, failedAt>>
    /\ UNCHANGED <<validateVars, parseVars, pdfVars, clientVars>>

\* lines 136-165: the call returns text; it is parsed and answered
ModelReturns ==
    /\ pc = "await"
    /\ \E reply \in ReplyTexts :
         LET parsedResponse == parseAcordResponse(reply)
         IN  /\ text' = [t |-> "string", s |-> reply]
             /\ responses' = Append(responses,
                    SuccessResponse(parsedResponse, models[modelIdx], Len(validFiles)))
    /\ inFlight' = inFlight \ {models[modelIdx]}
    /\ pc' = "done"
    /\ UNCHANGED <<validFiles, byteFail, imageDataUrls, modelIdx, attempts, thrown,
                   lastError, failedAt>>
    /\ UNCHANGED <<validateVars, parseVars, pdfVars, clientVars>>

\* variant: lastError keeps the first error thrown
ModelThrowsKeepFirst ==
    /\ pc = "await"
    /\ \E err \in ModelErrors :
         LET kept == IF lastError = Null THEN err ELSE lastError
         IN  /\ lastError' = kept
             /\ thrown' = Append(thrown, err)
             /\ IF models[modelIdx] = models[Len(models)]
                THEN /\ failedAt' = "model"
                     /\ responses' = Append(responses,
                            OuterCatch(AcordAnalyzerError(
                                <<"AI analysis failed: ", kept.message>>,
                                "AI_ANALYSIS_FAILED", 500)))
                     /\ pc' = "done"
                     /\ UNCHANGED modelIdx
                ELSE /\ modelIdx' = modelIdx + 1
                     /\ pc' = "loop"
                     /\ UNCHANGED <<failedAt, responses>>
    /\ inFlight' = inFlight \ {models[modelIdx]}
    /\ UNCHANGED <<validFiles, byteFail, imageDataUrls, attempts, text>>
    /\ UNCHANGED <<validateVars, parseVars, pdfVars, clientVars>>

\* lines 167-179: the call throws; the last identifier's failure ends the
\* request, any other one moves the loop on
ModelThrows ==
    /\ pc = "await"
    /\ \E err \in ModelErrors :
         /\ lastError' = err
         /\ thrown' = Append(thrown, err)
         /\ IF models[modelIdx] = models[Len(models)]
            THEN /\ failedAt' = "model"
                 /\ responses' = Append(responses,
                        OuterCatch(AcordAnalyzerError(
                            <<"AI analysis failed: ", err.message>>,
                            "AI_ANALYSIS_FAILED", 500)))
                 /\ pc' = "done"
                 /\ UNCHANGED modelIdx
            ELSE /\ modelIdx' = modelIdx + 1
                 /\ pc' = "loop"
                 /\ UNCHANGED <<failedAt, responses>>
    /\ inFlight' = inFlight \ {models[modelIdx]}
    /\ UNCHANGED <<validFiles, byteFail, imageDataUrls, attempts, text>>
    /\ UNCHANGED <<validateVars, parseVars, pdfVars, clientVars>>

Next ==
    \/ FormDataRejects
    \/ ReceiveForm
    \/ Encode
    \/ CallModel
    \/ ModelReturns
    \/ ModelThrows

Spec == Init /\ [][Next]_vars

(***************************************************************************)
(* validateFiles on every input list of the bounded universe.              *)
(***************************************************************************)
InitValidate ==
    /\ vfiles \in FileLists
    /\ vresult = Pending
    /\ PostIdle /\ ParseIdle /\ PdfIdle /\ ClientIdle

Validate ==
    /\ vresult = Pending
    /\ vresult' = validateFiles(vfiles)
    /\ UNCHANGED <<vfiles, postVars, parseVars, pdfVars, clientVars>>

NextValidate == Validate

SpecValidate == InitValidate /\ [][NextValidate]_vars

(***************************************************************************)
(* parseAcordResponse on every text of the bounded universe.               *)
(***************************************************************************)
InitParse ==
    /\ ptext \in Texts
    /\ presult = Pending
    /\ PostIdle /\ ValidateIdle /\ PdfIdle /\ ClientIdle

Parse ==
    /\ presult = Pending
    /\ presult' = parseAcordResponse(ptext)
    /\ UNCHANGED <<ptext, postVars, validateVars, pdfVars, clientVars>>

NextParse == Parse

SpecParse == InitParse /\ [][NextParse]_vars

(***************************************************************************)
(* convertPdfToImages (page.tsx).  The images are the File objects of      *)
(* lines 57-59, named after the document ("doc") and the page number.      *)
(***************************************************************************)
\* variant: no cap on the number of pages
maxPagesUncapped(n) == n

\* const maxPages = Math.min(5, pdf.numPages)
maxPages(n) == IF 5 <= n THEN 5 ELSE n

PageImage(p) == [name |-> <<"doc", "_page_", p, ".jpg">>, type |-> "image/jpeg"]

InitPdf ==
    /\ cpc = "open" /\ numPages = 0 /\ pageNum = 0 /\ imageFiles = <<>>
    /\ skipped = {}
    /\ PostIdle /\ ValidateIdle /\ ParseIdle /\ ClientIdle

\* lines 32-38: the library is loaded, the bytes are read, the document opens
OpenPdf ==
    /\ cpc = "open"
    /\ \E n \in 1..MaxNumPages : numPages' = n
    /\ pageNum' = 1
    /\ cpc' = "pages"
    /\ UNCHANGED <<imageFiles, skipped, postVars, validateVars, parseVars, clientVars>>

\* lines 32-36: the import, file.arrayBuffer() or getDocument rejects
OpenFails ==
    /\ cpc = "open"
    /\ cpc' = "threw"
    /\ UNCHANGED <<numPages, pageNum, imageFiles, skipped, postVars, validateVars, parseVars, clientVars>>

\* lines 40-72: one page is rendered; toBlob gives a blob, which is pushed
\* as an image file, or null, and then nothing is pushed
RenderPage ==
    /\ cpc = "pages"
    /\ pageNum <= maxPages(numPages)
    /\ \E blob \in BOOLEAN :
         IF blob
         THEN imageFiles' = Append(imageFiles, PageImage(pageNum)) /\ UNCHANGED skipped
         ELSE skipped' = skipped \cup {pageNum} /\ UNCHANGED imageFiles
    /\ pageNum' = pageNum + 1
    /\ UNCHANGED <<cpc, numPages, postVars, validateVars, parseVars, clientVars>>

\* lines 41-51: getPage or render rejects, and so does convertPdfToImages
PageFails ==
    /\ cpc = "pages"
    /\ pageNum <= maxPages(numPages)
    /\ cpc' = "threw"
    /\ UNCHANGED <<numPages, pageNum, imageFiles, skipped, postVars, validateVars, parseVars, clientVars>>

\* lines 74-78: the loop is over, imageFiles is returned
ReturnImages ==
    /\ cpc = "pages"
    /\ pageNum > maxPages(numPages)
    /\ cpc' = "returned"
    /\ UNCHANGED <<numPages, pageNum, imageFiles, skipped, postVars, validateVars, parseVars, clientVars>>

NextPdf ==
    \/ OpenPdf
    \/ OpenFails
    \/ RenderPage
    \/ PageFails
    \/ ReturnImages

SpecPdf == InitPdf /\ [][NextPdf]_vars

(***************************************************************************)
(* The page component: file selection (page.tsx 23-28, 81-150).            *)
(* A DOM event is dispatched in two steps: the browser delivers it (for a  *)
(* change event, after putting the user's selection into the input), then  *)
(* the handler runs to its end.  No other event is delivered in between.   *)
(***************************************************************************)
MAX_IMAGES == 5
MAX_TOTAL_IMAGE_BYTES == 4 * 1024 * 1024

\* the files a user may pick
ClientKinds ==
    { [name |-> "p.pdf", type |-> "application/pdf", size |-> 1024],
      [name |-> "q.pdf", type |-> "application/pdf", size |-> 2048],
      [name |-> "t.txt", type |-> "text/plain",      size |-> 16],
      [name |-> "e.gif", type |-> "image/gif",       size |-> 1024],
      [name |-> "b.jpg", type |-> "image/jpeg",      size |-> 2 * MiB] }

\* a selection: up to MaxMixed files of any kind, or up to MaxSelect images
Selections ==
    SeqsUpTo(ClientKinds, MaxMixed)
        \cup SeqsUpTo({f \in ClientKinds : f.type \in {"image/gif", "image/jpeg"}}, MaxSelect)

\* f.type.startsWith('image/'), the client's notion of an image
IsImage(f) == f.type \in {"image/png", "image/jpeg", "image/jpg", "image/gif"}
IsPdf(f) == f.type = "application/pdf"

Str(s) == [t |-> "string", s |-> s]

\* images.slice(0, MAX_IMAGES)
Slice(s, n) == SubSeq(s, 1, IF Len(s) < n THEN Len(s) ELSE n)

validateImagesTotalSize(files) == SumSize(files) <= MAX_TOTAL_IMAGE_BYTES

\* a handleSubmit call is waiting on a promise
SubmitRunning == spc \in {"pdf", "fetch"}

\* the state the selection handlers read and write
Ui == [held |-> held, fileSummary |-> fileSummary, uiError |-> uiError, json |-> json]

\* variant: every image of the selection is kept
handleFileChangeNoSlice(cur, files) ==
    LET base == [cur EXCEPT !.uiError = Null, !.json = Null]
        images == SelectSeq(files, IsImage)
    IN  IF Len(files) = 0 THEN [base EXCEPT !.fileSummary = <<>>]
        ELSE IF \E i \in DOMAIN files : IsPdf(files[i])
        THEN LET first == CHOOSE i \in DOMAIN files :
                             IsPdf(files[i]) /\ \A j \in 1..(i - 1) : ~IsPdf(files[j])
             IN  [base EXCEPT !.held = <<files[first]>>,
                              !.fileSummary = <<"PDF selected: ", files[first].name>>]
        ELSE IF Len(images) = 0 \/ ~validateImagesTotalSize(images)
        THEN [base EXCEPT !.uiError = Str("rejected"), !.fileSummary = <<>>, !.held = <<>>]
        ELSE [base EXCEPT !.held = images,
                          !.fileSummary = <<ToString(Len(images)), " image(s) selected">>]

\* handleFileChange, with files = event.target.files
handleFileChange(cur, files) ==
    LET base == [cur EXCEPT !.uiError = Null, !.json = Null]
        images == SelectSeq(files, IsImage)
        limited == Slice(images, MAX_IMAGES)
    IN  IF Len(files) = 0 THEN [base EXCEPT !.fileSummary = <<>>]
        ELSE IF \E i \in DOMAIN files : IsPdf(files[i])
        THEN LET first == CHOOSE i \in DOMAIN files :
                             IsPdf(files[i]) /\ \A j \in 1..(i - 1) : ~IsPdf(files[j])
             IN  [base EXCEPT !.held = <<files[first]>>,
                              !.fileSummary = <<"PDF selected: ", files[first].name>>]
        ELSE IF Len(images) = 0
        THEN [base EXCEPT
                !.uiError = Str("Please upload either a single PDF or up to 5 images (PNG/JPEG/JPG)."),
                !.fileSummary = <<>>,
                !.held = <<>>]
        ELSE IF ~validateImagesTotalSize(limited)
        THEN [base EXCEPT
                !.uiError = Str("Total size of selected images must be 4 MB or less."),
                !.fileSummary = <<>>,
                !.held = <<>>]
        ELSE [base EXCEPT !.held = limited,
                          !.fileSummary = <<ToString(Len(limited)), " image(s) selected">>]

\* handleDrop: the dropped files are put into the input and handleFileChange
\* is run on the input; an empty drop changes nothing
handleDrop(cur, dropped) ==
    IF Len(dropped) = 0 THEN cur
    ELSE handleFileChange([cur EXCEPT !.held = dropped], dropped)

SetUi(new) ==
    /\ held' = new.held
    /\ fileSummary' = new.fileSummary
    /\ uiError' = new.uiError
    /\ json' = new.json

InitSelect ==
    /\ ClientIdle
    /\ PostIdle /\ ValidateIdle /\ ParseIdle /\ PdfIdle

\* the user picks files in the file dialog: the input holds them and a
\* change event is on its way
UserSelects ==
    /\ event = Null /\ ~SubmitRunning
    /\ \E files \in Selections :
         /\ held' = files
         /\ event' = [type |-> "change", files |-> files]
    /\ UNCHANGED <<fileSummary, uiError, json, loading, spc, formData>>
    /\ UNCHANGED <<postVars, validateVars, parseVars, pdfVars>>

\* the user drops files on the label: a drop event is on its way
UserDrops ==
    /\ event = Null /\ ~SubmitRunning
    /\ \E files \in Selections : event' = [type |-> "drop", files |-> files]
    /\ UNCHANGED <<held, fileSummary, uiError, json, loading, spc, formData>>
    /\ UNCHANGED <<postVars, validateVars, parseVars, pdfVars>>

\* lines 94-135
HandleFileChange ==
    /\ event # Null /\ event.type = "change"
    /\ SetUi(handleFileChange(Ui, held))
    /\ event' = Null
    /\ UNCHANGED <<loading, spc, formData>>
    /\ UNCHANGED <<postVars, validateVars, parseVars, pdfVars>>

\* lines 137-150
HandleDrop ==
    /\ event # Null /\ event.type = "drop"
    /\ SetUi(handleDrop(Ui, event.files))
    /\ event' = Null
    /\ UNCHANGED <<loading, spc, formData>>
    /\ UNCHANGED <<postVars, validateVars, parseVars, pdfVars>>

\* lines 23-28: the Clear button
Reset ==
    /\ event = Null /\ ~SubmitRunning
    /\ json' = Null
    /\ uiError' = Null
    /\ fileSummary' = <<>>
    /\ held' = <<>>
    /\ UNCHANGED <<loading, event, spc, formData>>
    /\ UNCHANGED <<postVars, validateVars, parseVars, pdfVars>>

NextSelect ==
    \/ UserSelects
    \/ UserDrops
    \/ HandleFileChange
    \/ HandleDrop
    \/ Reset

SpecSelect == InitSelect /\ [][NextSelect]_vars

(***************************************************************************)
(* The page component: handleSubmit (page.tsx 164-206), started by the     *)
(* submit button (271).  spc is the position of the latest call: "pdf"     *)
(* while it awaits convertPdfToImages, "fetch" while it awaits the         *)
(* request, "done" once it has returned, "threw" once its promise has      *)
(* rejected.  The user selects nothing while a call is waiting.            *)
(***************************************************************************)
Undefined == [t |-> "undefined"]

\* what res.ok and the parsed body of the response can be
ServerReplies ==
    { [ok |-> TRUE,  error |-> Undefined, data |-> [t |-> "object"]],
      [ok |-> TRUE,  error |-> Undefined, data |-> Null],
      [ok |-> TRUE,  error |-> Undefined, data |-> Undefined],
      [ok |-> FALSE, error |-> Str("Maximum 5 files allowed"), data |-> Undefined],
      [ok |-> FALSE, error |-> Undefined, data |-> Undefined] }

\* lines 164-188, up to the first await
HandleSubmit ==
    /\ event = Null /\ ~SubmitRunning
    /\ ~loading /\ fileSummary # <<>>
    /\ loading' = TRUE
    /\ uiError' = Null
    /\ json' = Null
    /\ IF Len(held) = 0
       THEN spc' = "threw" /\ UNCHANGED <<formData, pdfVars>>
       ELSE IF \E i \in DOMAIN held : IsPdf(held[i])
       THEN /\ spc' = "pdf"
            /\ cpc' = "open"
            /\ UNCHANGED <<formData, numPages, pageNum, imageFiles, skipped>>
       ELSE LET images == Slice(SelectSeq(held, IsImage), MAX_IMAGES)
            IN  IF ~validateImagesTotalSize(images)
                THEN spc' = "threw" /\ UNCHANGED <<formData, pdfVars>>
                ELSE spc' = "fetch" /\ formData' = images /\ UNCHANGED pdfVars
    /\ UNCHANGED <<held, fileSummary, event>>
    /\ UNCHANGED <<postVars, validateVars, parseVars>>

LeavePdf ==
    /\ cpc' = "idle" /\ numPages' = 0 /\ pageNum' = 0 /\ imageFiles' = <<>>
    /\ skipped' = {}

\* lines 180-181: convertPdfToImages has returned its image files
PdfConverted ==
    /\ spc = "pdf" /\ cpc = "returned"
    /\ formData' = imageFiles
    /\ spc' = "fetch"
    /\ LeavePdf
    /\ UNCHANGED <<held, fileSummary, uiError, json, loading, event>>
    /\ UNCHANGED <<postVars, validateVars, parseVars>>

\* line 180: convertPdfToImages has rejected; the await is outside the try
\* statement, so handleSubmit rejects with it
PdfRejected ==
    /\ spc = "pdf" /\ cpc = "threw"
    /\ spc' = "threw"
    /\ LeavePdf
    /\ UNCHANGED <<held, fileSummary, uiError, json, loading, event, formData>>
    /\ UNCHANGED <<postVars, validateVars, parseVars>>

\* lines 200-205: catch, then finally
Caught(msg) ==
    /\ uiError' = msg
    /\ loading' = FALSE
    /\ spc' = "done"
    /\ formData' = <<>>
    /\ UNCHANGED <<held, fileSummary, json, event>>

\* line 191: fetch rejects
FetchFails ==
    /\ spc = "fetch"
    /\ Caught(Str("Failed to fetch"))
    /\ UNCHANGED <<postVars, validateVars, parseVars, pdfVars>>

\* line 196: the body of the response is not JSON
BodyNotJson ==
    /\ spc = "fetch"
    /\ Caught(Str("Unexpected token"))
    /\ UNCHANGED <<postVars, validateVars, parseVars, pdfVars>>

\* lines 196-205: the response is read
ResponseRead ==
    /\ spc = "fetch"
    /\ \E res \in ServerReplies :
         IF ~res.ok \/ res.error # Undefined
         THEN Caught(IF res.error # Undefined THEN res.error ELSE Str("Analyze failed"))
         ELSE /\ json' = (IF res.data = Undefined THEN Null ELSE res.data)
              /\ uiError' = (IF res.data = Null
                             THEN Str("This does not appear to be an ACORD 25 certificate.")
                             ELSE uiError)
              /\ loading' = FALSE
              /\ spc' = "done"
              /\ formData' = <<>>
              /\ UNCHANGED <<held, fileSummary, event>>
    /\ UNCHANGED <<postVars, validateVars, parseVars, pdfVars>>

NextSubmit ==
    \/ UserSelects
    \/ UserDrops
    \/ HandleFileChange
    \/ HandleDrop
    \/ Reset
    \/ HandleSubmit
    \/ OpenPdf
    \/ OpenFails
    \/ RenderPage
    \/ PageFails
    \/ ReturnImages
    \/ PdfConverted
    \/ PdfRejected
    \/ FetchFails
    \/ BodyNotJson
    \/ ResponseRead

SpecSubmit == InitSelect /\ [][NextSubmit]_vars

(***************************************************************************)
(* Properties of validateFiles (SpecValidate).                             *)
(***************************************************************************)
Validated == vresult # Pending
FailedWith(r, code) == ~r.ok /\ r.error.code = code
Mentions(message, name) == \E k \in DOMAIN message : message[k] = name

\* an upload of images only, at least one
ImageMode(files) == Len(files) >= 1 /\ \A i \in DOMAIN files : IsImage(files[i])

RECURSIVE OnlySupported(_)
OnlySupported(files) ==
    IF files = <<>> THEN <<>>
    ELSE (IF IsSupported(Head(files)) THEN <<Head(files)>> ELSE <<>>)
         \o OnlySupported(Tail(files))

C7_AsClaimed ==
    Validated =>
        \A i \in DOMAIN vfiles :
            (IsImage(vfiles[i]) /\ vfiles[i].size > 2 * MiB)
            => ( /\ FailedWith(vresult, "FILE_TOO_LARGE")
                 /\ Mentions(vresult.error.message, vfiles[i].name) )

\* C7, amended: for an input of 1 to 5 files in which some PNG/JPEG/JPG file
\* exceeds 2 MiB, validation fails with FILE_TOO_LARGE (status 400) and the
\* message names the first such file of the input.
C7_FirstTooLargeNamed ==
    Validated =>
        LET over == {i \in DOMAIN vfiles :
                        IsSupported(vfiles[i]) /\ vfiles[i].size > 2 * MiB}
        IN  (Len(vfiles) >= 1 /\ Len(vfiles) <= 5 /\ over # {})
            => LET first == CHOOSE i \in over : \A j \in over : i <= j
               IN  /\ FailedWith(vresult, "FILE_TOO_LARGE")
                   /\ vresult.error.statusCode = 400
                   /\ vresult.error.message =
                        <<"File ", vfiles[first].name, " is too large (max 2MB per file)">>

\* two oversize images after a file of exactly 2 MiB: the first oversize one is named
C7_Witness ==
    /\ Validated /\ FailedWith(vresult, "FILE_TOO_LARGE")
    /\ Len(vfiles) = 3 /\ vfiles[1].size = 2 * MiB
    /\ vfiles[2].name = "d.jpg" /\ vfiles[3].name = "c.png"
    /\ Mentions(vresult.error.message, "d.jpg")

(***************************************************************************)
(* Properties of parseAcordResponse (SpecParse).                           *)
(* Well-formed JSON objects are generated from their syntax trees, apart   *)
(* from the parser: a tree is a sequence of members, a member is the       *)
(* scalar member a, or k with null, or k with a tree.  Trees of up to two  *)
(* members nested once cover every well-formed object of up to 6 tokens:   *)
(* three members take 7 tokens and two nestings take 8.                    *)
(***************************************************************************)
UpToTwo(S) == {<<>>} \cup {<<m>> : m \in S} \cup {<<m, n>> : m \in S, n \in S}
FlatMembers == {[key |-> "a", kind |-> "number"], [key |-> "k", kind |-> "null"]}
FlatTrees == UpToTwo(FlatMembers)
Trees == UpToTwo(FlatMembers \cup {[key |-> "k", kind |-> "object", sub |-> t] : t \in FlatTrees})

\* JSON text of a tree
RECURSIVE Ser(_)
RECURSIVE SerMembers(_)
SerMember(m) ==
    IF m.kind = "number" THEN <<"a">>
    ELSE IF m.kind = "null" THEN <<"k", "null">>
    ELSE <<"k">> \o Ser(m.sub)
SerMembers(ms) ==
    IF Len(ms) = 1 THEN SerMember(ms[1])
    ELSE SerMember(ms[1]) \o <<",">> \o SerMembers(Tail(ms))
Ser(tree) == IF tree = <<>> THEN <<"{", "}">> ELSE <<"{">> \o SerMembers(tree) \o <<"}">>

\* the object a tree denotes: name -> value, a repeated name keeping its last value
RECURSIVE Denote(_)
MemberValue(m) ==
    IF m.kind = "number" THEN JsonNumber
    ELSE IF m.kind = "null" THEN Null
    ELSE Denote(m.sub)
Denote(tree) ==
    JsonObject({<<tree[i].key, MemberValue(tree[i])>> :
                  i \in {i \in DOMAIN tree : \A j \in DOMAIN tree : j > i => tree[j].key # tree[i].key}})

WellFormed == {[s |-> Ser(tree), o |-> Denote(tree)] : tree \in Trees}
WellFormedTexts == {w.s : w \in WellFormed}

HasBraces(t) == \E i, j \in DOMAIN t : i < j /\ t[i] = "{" /\ t[j] = "}"
\* from the first "{" to the last "}" of the text
Braced(t) ==
    LET i == CHOOSE a \in DOMAIN t : t[a] = "{" /\ \A b \in DOMAIN t : t[b] = "{" => a <= b
        j == CHOOSE a \in DOMAIN t : t[a] = "}" /\ \A b \in DOMAIN t : t[b] = "}" => a >= b
    IN  SubSeq(t, i, j)

\* C9: when the text from the first "{" to the last "}" of the model's reply
\* is a well-formed JSON object with at least one key, parseAcordResponse
\* returns exactly that object.
C9_ObjectReturnedUnchanged ==
    (presult # Pending /\ HasBraces(ptext)) =>
        LET braced == Braced(ptext)
        IN  \A w \in WellFormed :
                (braced = w.s /\ w.o.members # {}) => presult = w.o

\* an object between two pieces of prose is what comes back
C9_Witness ==
    /\ presult # Pending
    /\ ptext = <<"x", "{", "a", "}", "x">>
    /\ presult = JsonObject({<<"a", JsonNumber>>})

(***************************************************************************)
(* Properties of the POST handler (Spec).                                  *)
(***************************************************************************)
IsPrefix(s, t) == Len(s) <= Len(t) /\ \A i \in DOMAIN s : s[i] = t[i]
HasField(body, f) == f \in DOMAIN body
CallReturned == text # Null

\* C1: the identifiers are tried in list order, each at most once, one call
\* at a time; every attempt before the latest one threw; and once a call has
\* returned text the request is answered, by the identifier that returned,
\* with no further identifier tried.
C1_SequentialFallback ==
    /\ IsPrefix(attempts, models)
    /\ Cardinality(inFlight) <= 1
    /\ inFlight # {} => (attempts # <<>> /\ inFlight = {attempts[Len(attempts)]})
    /\ Len(attempts) >= 2 => IsPrefix(<<models[1]>>, attempts) /\ Len(thrown) >= 1
    /\ Len(thrown) + Cardinality(inFlight) + (IF CallReturned THEN 1 ELSE 0) = Len(attempts)
    /\ CallReturned =>
          /\ pc = "done" /\ inFlight = {}
          /\ Len(responses) = 1
          /\ responses[1].body.model = attempts[Len(attempts)]
          /\ Len(thrown) = Len(attempts) - 1

\* the primary returned text that parses to null: answered, secondary never tried
C1_Witness ==
    /\ CallReturned /\ pc = "done"
    /\ attempts = <<models[1]>>
    /\ responses[1].body.data = Null

\* C2: the primary call threw and the secondary returned a well-formed JSON
\* object with at least one key: the response is a success (HTTP 200) whose
\* data is that object and whose model is the secondary identifier.
C2_SecondarySucceeds ==
    (Len(thrown) = 1 /\ CallReturned) =>
        \A w \in WellFormed :
            (text.s = w.s /\ w.o.members # {})
            => /\ Len(responses) = 1
               /\ responses[1].status = 200
               /\ responses[1].body.success = TRUE
               /\ responses[1].body.data = w.o
               /\ responses[1].body.model = models[2]

C2_Witness ==
    /\ attempts = models /\ Len(thrown) = 1 /\ CallReturned
    /\ text.s = <<"{", "a", "}">>
    /\ responses[1].body.data = JsonObject({<<"a", JsonNumber>>})

\* C3: both calls threw: exactly one response, HTTP 500, success false, code
\* AI_ANALYSIS_FAILED, its message made from the message of the secondary's
\* error.
C3_BothFail ==
    Len(thrown) = 2 =>
        /\ pc = "done"
        /\ Len(responses) = 1
        /\ responses[1].status = 500
        /\ responses[1].body.success = FALSE
        /\ responses[1].body.code = "AI_ANALYSIS_FAILED"
        /\ responses[1].body.error = <<"AI analysis failed: ", thrown[2].message>>

\* the two calls threw different errors
C3_Witness ==
    /\ Len(thrown) = 2 /\ thrown[1] # thrown[2]
    /\ attempts = models
    /\ pc = "done" /\ responses[1].body.code = "AI_ANALYSIS_FAILED"

\* C4: whichever step failed, the request ends with one response that has
\* success false and a non-empty code; the status is 400 for a validation or
\* a per-file failure and 500 for a model failure or an unexpected exception,
\* the latter as INTERNAL_ERROR with the generic message; and no response has
\* success true together with a code or an error.
C4_StructuredRejection ==
    /\ pc = "done" => Len(responses) = 1
    /\ failedAt # "none" =>
          /\ pc = "done" /\ Len(responses) = 1
          /\ responses[1].body.success = FALSE
          /\ HasField(responses[1].body, "code") /\ responses[1].body.code # ""
          /\ HasField(responses[1].body, "error") /\ responses[1].body.error # <<>>
          /\ failedAt \in {"validation", "encoding"} => responses[1].status = 400
          /\ failedAt = "model" => responses[1].status = 500
          /\ failedAt = "form" =>
                /\ responses[1].status = 500
                /\ responses[1].body.code = "INTERNAL_ERROR"
                /\ responses[1].body.error = <<"Internal server error">>
    /\ \A i \in DOMAIN responses :
          /\ responses[i].status \in {200, 400, 500}
          /\ responses[i].body.success =>
                /\ ~HasField(responses[i].body, "code")
                /\ ~HasField(responses[i].body, "error")
                /\ responses[i].status = 200
                /\ failedAt = "none"
          /\ ~responses[i].body.success => failedAt # "none"

\* the unexpected exception: req.formData() rejected
C4_Witness ==
    /\ failedAt = "form" /\ pc = "done"
    /\ responses[1].body.code = "INTERNAL_ERROR"

\* C5, as claimed: when the bytes of some file cannot be read, the request
\* fails with code FILE_PROCESSING_ERROR naming such a file, and no model is
\* called.
C5_AsClaimed ==
    byteFail # {} =>
        /\ pc = "done" /\ Len(responses) = 1
        /\ responses[1].body.success = FALSE
        /\ responses[1].body.code = "FILE_PROCESSING_ERROR"
        /\ \E i \in byteFail : Mentions(responses[1].body.error, validFiles[i].name)
        /\ attempts = <<>>

\* C5, amended: when the bytes of some file cannot be read, fileToDataUrl
\* throws FILE_PROCESSING_ERROR for that file, which POST replaces: the
\* request fails with status 400 and code FILE_CONVERSION_ERROR, the message
\* naming a file whose bytes could not be read, and no model is called.
C5_ConversionError ==
    /\ \A f \in FileKinds :
          /\ ~fileToDataUrl(f, FALSE).ok
          /\ fileToDataUrl(f, FALSE).error.code = "FILE_PROCESSING_ERROR"
          /\ Mentions(fileToDataUrl(f, FALSE).error.message, f.name)
    /\ byteFail # {} =>
          /\ pc = "done" /\ Len(responses) = 1
          /\ responses[1].status = 400
          /\ responses[1].body.success = FALSE
          /\ responses[1].body.code = "FILE_CONVERSION_ERROR"
          /\ \E i \in byteFail :
                responses[1].body.error = <<"Failed to process file ", validFiles[i].name>>
          /\ attempts = <<>> /\ inFlight = {} /\ imageDataUrls = <<>>

\* of two accepted files, the second one's bytes cannot be read
C5_Witness ==
    /\ Len(validFiles) = 2 /\ byteFail = {2}
    /\ validFiles[1].name # validFiles[2].name
    /\ pc = "done" /\ Mentions(responses[1].body.error, validFiles[2].name)

\* C8: the call returned the word null, or text without "{" ... "}", or text
\* whose "{" ... "}" is not well-formed JSON or is the empty object: the
\* response is a success (HTTP 200, success true, neither code nor error)
\* whose data is null.
C8_NullIsSuccess ==
    CallReturned =>
        LET unrecognized ==
              \/ text.s = <<"null">>
              \/ ~HasBraces(text.s)
              \/ Braced(text.s) \notin WellFormedTexts
              \/ Braced(text.s) = <<"{", "}">>
        IN  unrecognized =>
              /\ pc = "done" /\ Len(responses) = 1
              /\ responses[1].status = 200
              /\ responses[1].body.success = TRUE
              /\ responses[1].body.data = Null
              /\ ~HasField(responses[1].body, "code")
              /\ ~HasField(responses[1].body, "error")
              /\ failedAt = "none"

\* braces that do not parse: answered as a success with null data
C8_Witness ==
    /\ CallReturned /\ text.s = <<"x", "{", "x", "}">>
    /\ pc = "done" /\ responses[1].body.success = TRUE
    /\ responses[1].body.data = Null

(***************************************************************************)
(* Properties of convertPdfToImages (SpecPdf).                             *)
(***************************************************************************)
PageOf(image) == image.name[3]
Capped(n) == IF n <= 5 THEN n ELSE 5

\* C10, as claimed: a returned rasterization of an N-page document holds
\* min(N, 5) images, the i-th being page i.
C10_AsClaimed ==
    cpc = "returned" =>
        /\ Len(imageFiles) = Capped(numPages)
        /\ \A i \in DOMAIN imageFiles : PageOf(imageFiles[i]) = i

\* C10, amended: a returned rasterization of an N-page document holds one
\* image for each of the pages 1..min(N, 5) whose toBlob gave a blob, in page
\* order, and none for a page whose toBlob gave null; so exactly min(N, 5)
\* images, the i-th being page i, when every page gave a blob.
C10_EncodedPagesInOrder ==
    cpc = "returned" =>
        /\ {PageOf(imageFiles[i]) : i \in DOMAIN imageFiles}
              = (1..Capped(numPages)) \ skipped
        /\ \A i, j \in DOMAIN imageFiles :
              i < j => PageOf(imageFiles[i]) < PageOf(imageFiles[j])
        /\ skipped \subseteq 1..Capped(numPages)
        /\ Len(imageFiles) = Capped(numPages) - Cardinality(skipped)
        /\ skipped = {} =>
              /\ Len(imageFiles) = Capped(numPages)
              /\ \A i \in DOMAIN imageFiles : PageOf(imageFiles[i]) = i

\* six pages, the second one skipped: pages 1, 3, 4, 5 come back
C10_Witness ==
    /\ cpc = "returned" /\ numPages = 6 /\ skipped = {2}
    /\ Len(imageFiles) = 4 /\ PageOf(imageFiles[2]) = 3

(***************************************************************************)
(* Properties of the file selection (SpecSelect).                          *)
(***************************************************************************)
RECURSIVE OnlyImages(_)
OnlyImages(files) ==
    IF files = <<>> THEN <<>>
    ELSE (IF IsImage(Head(files)) THEN <<Head(files)>> ELSE <<>>)
         \o OnlyImages(Tail(files))

FirstFive(files) == [i \in 1..(IF Len(files) <= 5 THEN Len(files) ELSE 5) |-> files[i]]
HasPdf(files) == \E i \in DOMAIN files : files[i].type = "application/pdf"

\* a selection that is refused: files, none a PDF, and no image among them
\* or the first five images larger than 4 MiB together
Rejected(files) ==
    /\ files # <<>> /\ ~HasPdf(files)
    /\ OnlyImages(files) = <<>> \/ SumSize(FirstFive(OnlyImages(files))) > 4 * MiB

\* what the input is to hold after a selection
HeldAfter(files) ==
    IF files = <<>> \/ Rejected(files) THEN <<>>
    ELSE IF HasPdf(files)
    THEN LET pdfs == {i \in DOMAIN files : files[i].type = "application/pdf"}
         IN  <<files[CHOOSE i \in pdfs : \A j \in pdfs : i <= j]>>
    ELSE FirstFive(OnlyImages(files))

HeldShape ==
    \/ held = <<>>
    \/ Len(held) = 1 /\ held[1].type = "application/pdf"
    \/ /\ Len(held) >= 1 /\ Len(held) <= 5
       /\ \A i \in DOMAIN held : IsImage(held[i])
       /\ SumSize(held) <= 4 * MiB

\* C11: whenever a selection handler or reset has run, the input holds
\* nothing, or one PDF, or at most 5 images of at most 4 MiB together; a
\* handled selection leaves exactly the first PDF of the selection, or else
\* its first 5 images in order, whatever was held before; a rejected
\* selection leaves nothing held and fileSummary empty; reset leaves nothing.
C11_HeldSetReplaced ==
    [][ /\ event' = Null => HeldShape'
        /\ (event # Null /\ event' = Null) =>
              IF event.type = "drop" /\ event.files = <<>>
              THEN held' = held
              ELSE /\ held' = HeldAfter(event.files)
                   /\ Rejected(event.files) => (held' = <<>> /\ fileSummary' = <<>>)
        /\ (event = Null /\ event' = Null) => (held' = <<>> /\ fileSummary' = <<>>)
      ]_vars

\* five images are held and counted
C11_Witness ==
    /\ event = Null /\ Len(held) = 5
    /\ \E i \in DOMAIN held : held[i].name = "b.jpg"
    /\ fileSummary = <<"5", " image(s) selected">>

(***************************************************************************)
(* Properties of handleSubmit (SpecSubmit).                                *)
(***************************************************************************)
SubmitEnded == spc \in {"done", "threw"}

\* C12: once a handleSubmit call has returned or thrown, loading is false.
C12_LoadingReset == SubmitEnded => loading = FALSE

=============================================================================
